---- MODULE Spec2Model ----
(***************************************************************************)
(* Model of package smtp (src/smtp.go): the SMTP client struct, New, the   *)
(* accessors, GetClient and SendMail.  The net/smtp transport is the       *)
(* environment: every command it offers (Dial, StartTLS, Auth, Mail, Rcpt, *)
(* Data, Write, the writer's Close) succeeds or fails as the server and    *)
(* the network decide, so each is a nondeterministic choice of ok.         *)
(* Every transport command is one step of the calling goroutine; the       *)
(* deferred calls of SendMail run from a per-call defer stack, last in     *)
(* first out, when the function returns.                                    *)
(***************************************************************************)
EXTENDS Integers, Sequences, FiniteSets, TLC

\* ---------------------------------------------------------------- bounds
\* longest To list of an Email
MaxTo == 2
\* number of SendMail calls made on the client in one behaviour
MaxCalls == 2
\* number of goroutines that may call SendMail on the same client
NumProcs == 2

Procs == 1..NumProcs

\* ---------------------------------------------------------------- inputs
Senders == {"s@x.com"}
Passwords == {"", "pw"}
Hosts == {"mail.x.com"}
Ports == {25, 587}
Addrs == {"a@x.com", "b@x.com"}
CcLists == {<<>>, <<"c@x.com", "d@x.com">>}
BccLists == {<<>>, <<"e@x.com">>}
Subjects == {"S"}
Bodies == {"B"}

RECURSIVE SeqsUpTo(_, _)
SeqsUpTo(S, n) ==
  IF n = 0 THEN {<<>>}
  ELSE LET shorter == SeqsUpTo(S, n - 1)
       IN shorter \cup {Append(s, x) : s \in {t \in shorter : Len(t) = n - 1}, x \in S}

\* type Email struct
Email == [To : SeqsUpTo(Addrs, MaxTo), Cc : CcLists, Bcc : BccLists,
          Subject : Subjects, Body : Bodies]

NoEmail == [To |-> <<>>, Cc |-> <<>>, Bcc |-> <<>>, Subject |-> "", Body |-> ""]

\* ---------------------------------------------------------------- errors
\* a Go error value: the format's fixed text, the context values formatted
\* into it, and the text of the underlying transport error
NilErr == [msg |-> "nil", ctx |-> <<>>, cause |-> "nil"]

Errorf(msg, ctx, cause) == [msg |-> msg, ctx |-> ctx, cause |-> cause]

\* the text of the error the transport reports when a command fails
TransportErr(cmd) == "transport: " \o cmd \o " failed"

\* the error value the transport returns for a failed command, before any wrapping
Underlying(cmd) == [msg |-> "", ctx |-> <<>>, cause |-> TransportErr(cmd)]

\* ---------------------------------------------------------------- strconv
Digit(d) == CASE d = 0 -> "0" [] d = 1 -> "1" [] d = 2 -> "2" [] d = 3 -> "3"
              [] d = 4 -> "4" [] d = 5 -> "5" [] d = 6 -> "6" [] d = 7 -> "7"
              [] d = 8 -> "8" [] d = 9 -> "9"

RECURSIVE Digits(_)
Digits(n) == IF n < 10 THEN <<Digit(n)>> ELSE Append(Digits(n \div 10), Digit(n % 10))

\* variant: string(rune(port)) in place of strconv.Itoa(port): one character
\* that is not a decimal text
Itoa_RuneConversion(n) == <<"?">>

\* strconv.Itoa: the decimal text of n, as a sequence of characters
Itoa(n) == IF n < 0 THEN <<"-">> \o Digits(0 - n) ELSE Digits(n)

DigitVal(ch) == CASE ch = "0" -> 0 [] ch = "1" -> 1 [] ch = "2" -> 2 [] ch = "3" -> 3
                  [] ch = "4" -> 4 [] ch = "5" -> 5 [] ch = "6" -> 6 [] ch = "7" -> 7
                  [] ch = "8" -> 8 [] ch = "9" -> 9 [] OTHER -> -1

RECURSIVE ParseDigits(_, _)
ParseDigits(s, acc) ==
  IF s = <<>> THEN acc
  ELSE IF acc < 0 \/ DigitVal(Head(s)) < 0 THEN -1
  ELSE ParseDigits(Tail(s), acc * 10 + DigitVal(Head(s)))

\* strconv.Atoi with the error dropped (port, _ := ...): 0 when s is not a number
Atoi(s) ==
  IF s = <<>> THEN 0
  ELSE IF Head(s) = "-" \/ Head(s) = "+"
       THEN IF Tail(s) = <<>> \/ ParseDigits(Tail(s), 0) < 0 THEN 0
            ELSE IF Head(s) = "-" THEN 0 - ParseDigits(Tail(s), 0)
                 ELSE ParseDigits(Tail(s), 0)
       ELSE IF ParseDigits(s, 0) < 0 THEN 0 ELSE ParseDigits(s, 0)

\* ---------------------------------------------------------------- state
VARIABLES
  c,        \* the *SMTP New returned, or NoClient
  newIn,    \* the arguments New was called with, or NoArgs
  newErr,   \* the error New returned
  pc,       \* pc[p]: where goroutine p stands in SendMail
  email,    \* email[p]: the argument of p's running SendMail call
  client,   \* client[p]: the *smtp.Client of the call (index in conns), 0 = nil
  err,      \* err[p]: the local variable err of SendMail
  ret,      \* ret[p]: the value the call returns
  idx,      \* idx[p]: position of the range loop over email.To
  w,        \* w[p]: the data-phase writer: "nil", "open" or "closed"
  wCloses,  \* wCloses[p]: how often w.Close was called in this call
  defers,   \* defers[p]: the deferred calls of the running SendMail, in defer order
  log,      \* log[p]: the transport commands the call has issued, in order
  conns,    \* every connection Dial returned, in dial order
  calls,    \* number of SendMail calls started
  pb        \* the last ParseBody call: its arguments, the order in which the
            \* map was ranged over, and its result

vars == <<c, newIn, newErr, pc, email, client, err, ret, idx, w, wCloses,
          defers, log, conns, calls, pb>>

\* the nil smtp.Auth interface value
NilAuth == [isNil |-> TRUE, identity |-> "", username |-> "", password |-> "", host |-> ""]

NoClient == [senderAddress |-> "", password |-> "", host |-> "", port |-> <<>>,
             auth |-> NilAuth]
NoArgs == [senderAddress |-> "", password |-> "", host |-> "", port |-> 0,
           called |-> FALSE]

NoParse == [called |-> FALSE, body |-> <<>>, parameters |-> <<>>, order |-> <<>>,
            out |-> <<>>]

Init ==
  /\ c = NoClient
  /\ newIn = NoArgs
  /\ newErr = NilErr
  /\ pc = [p \in Procs |-> "idle"]
  /\ email = [p \in Procs |-> NoEmail]
  /\ client = [p \in Procs |-> 0]
  /\ err = [p \in Procs |-> NilErr]
  /\ ret = [p \in Procs |-> NilErr]
  /\ idx = [p \in Procs |-> 0]
  /\ w = [p \in Procs |-> "nil"]
  /\ wCloses = [p \in Procs |-> 0]
  /\ defers = [p \in Procs |-> <<>>]
  /\ log = [p \in Procs |-> <<>>]
  /\ conns = <<>>
  /\ calls = 0
  /\ pb = NoParse

\* ---------------------------------------------------------------- New
\* net/smtp.PlainAuth: returns &plainAuth{identity, username, password, host},
\* a non-nil Auth for every argument, an empty password included
PlainAuth(identity, username, password, host) ==
  [isNil |-> FALSE, identity |-> identity, username |-> username,
   password |-> password, host |-> host]

NewAuthErr == Errorf("auth error, empty auth", <<>>, "nil")

New(senderAddress, password, host, port) ==
  /\ ~newIn.called
  /\ newIn' = [senderAddress |-> senderAddress, password |-> password,
               host |-> host, port |-> port, called |-> TRUE]
  /\ LET auth == PlainAuth("", senderAddress, password, host)
     IN IF auth.isNil
        THEN /\ c' = NoClient
             /\ newErr' = NewAuthErr
        ELSE /\ c' = [senderAddress |-> senderAddress, password |-> password,
                      host |-> host, port |-> Itoa(port), auth |-> auth]
             /\ newErr' = NilErr
  /\ UNCHANGED <<pc, email, client, err, ret, idx, w, wCloses, defers, log,
                 conns, calls, pb>>

\* the ports a client can be constructed for
AllPorts == 1..65535

\* New is called with any sender, password, host and port
NextNew ==
  /\ ~newIn.called
  /\ \E s \in Senders, pw \in Passwords, h \in Hosts, port \in AllPorts : New(s, pw, h, port)

SpecNew == Init /\ [][NextNew]_vars

\* ---------------------------------------------------------------- accessors
GetSenderAddress == c.senderAddress
GetPassword == c.password
GetHost == c.host
GetPort == Atoi(c.port)

\* ---------------------------------------------------------------- transport
\* one command issued to the transport: its name, the connection it was issued
\* on (0 when there is none yet), its arguments and whether it succeeded
Cmd(name, conn, arg, ok) == [cmd |-> name, conn |-> conn, arg |-> arg, ok |-> ok]

\* variant: the client is kept in a field shared by all calls, so a command
\* goes to the connection dialed last
Issue_SharedClient(p, name, conn, arg, ok) ==
  [log EXCEPT ![p] = Append(@, Cmd(name, IF name = "Dial" THEN conn ELSE Len(conns), arg, ok))]

\* the call of goroutine p issues a command on its own client
Issue(p, name, conn, arg, ok) == [log EXCEPT ![p] = Append(@, Cmd(name, conn, arg, ok))]

\* smtp.Dial returned a client: a new open connection owned by the calling
\* goroutine; call is the number of SendMail calls started when it was dialed
NewConn(p) == [owner |-> p, call |-> calls, open |-> TRUE, closes |-> 0]

\* (*smtp.Client).Close on connection k
CloseConn(k) == [conns EXCEPT ![k] = [@ EXCEPT !.open = FALSE, !.closes = @ + 1]]

\* ---------------------------------------------------------------- GetClient
DialErr(cause) == Errorf("client error, failed to dial", <<>>, cause)
StartTLSErr(cause) == Errorf("client error, failed to start tls", <<>>, cause)
AuthErr(cause) == Errorf("client error, failed to apply auth", <<>>, cause)
MailErr(cause) == Errorf("client error, failed to create mail", <<>>, cause)

\* variant: SendMail wraps the GetClient error in one of its own
GetClientFailed_Rewrapped(e) == Errorf("send error, failed to get client", <<>>, e.cause)

\* SendMail, lines 102-105: a GetClient error is returned as it is
GetClientFailed(e) == e

\* the address GetClient dials: c.host + ":" + c.port
DialAddr == <<c.host, ":">> \o c.port

\* the range loop over email.To: the next statement when the loop stands at i
LoopNext(i, to) == IF i <= Len(to) THEN "rcpt" ELSE "data"

\* variant: a failed dial is tried again
AfterDial_Retry(ok) == IF ok THEN "starttls" ELSE "dial"

\* the statement GetClient runs after a command that returned ok
AfterDial(ok) == IF ok THEN "starttls" ELSE "done"
\* variant: the error check after StartTLS is missing
AfterStartTLS_Unchecked(ok) == "auth"
AfterStartTLS(ok) == IF ok THEN "auth" ELSE "done"
AfterAuth(ok) == IF ok THEN "mail" ELSE "done"
AfterMail(ok, to) == IF ok THEN LoopNext(1, to) ELSE "done"

\* SendMail(email): the call starts and enters GetClient
SendMail(p, e) ==
  /\ newIn.called /\ newErr = NilErr
  /\ pc[p] \in {"idle", "done"}
  /\ calls < MaxCalls
  /\ calls' = calls + 1
  /\ pc' = [pc EXCEPT ![p] = "dial"]
  /\ email' = [email EXCEPT ![p] = e]
  /\ client' = [client EXCEPT ![p] = 0]
  /\ err' = [err EXCEPT ![p] = NilErr]
  /\ ret' = [ret EXCEPT ![p] = NilErr]
  /\ idx' = [idx EXCEPT ![p] = 0]
  /\ w' = [w EXCEPT ![p] = "nil"]
  /\ wCloses' = [wCloses EXCEPT ![p] = 0]
  /\ defers' = [defers EXCEPT ![p] = <<>>]
  /\ log' = [log EXCEPT ![p] = <<>>]
  /\ UNCHANGED <<pb, c, newIn, newErr, conns>>

\* client, err := smtp.Dial(c.host + ":" + c.port)
GetClientDial(p, ok) ==
  /\ pc[p] = "dial"
  /\ log' = Issue(p, "Dial", IF ok THEN Len(conns) + 1 ELSE 0, DialAddr, ok)
  /\ pc' = [pc EXCEPT ![p] = AfterDial(ok)]
  /\ IF ok
     THEN /\ conns' = Append(conns, NewConn(p))
          /\ client' = [client EXCEPT ![p] = Len(conns) + 1]
          /\ UNCHANGED <<err, ret>>
     ELSE /\ err' = [err EXCEPT ![p] = DialErr(TransportErr("Dial"))]
          /\ ret' = [ret EXCEPT ![p] = GetClientFailed(DialErr(TransportErr("Dial")))]
          /\ UNCHANGED <<conns, client>>
  /\ UNCHANGED <<pb, c, newIn, newErr, email, idx, w, wCloses, defers, calls>>

\* a command of GetClient after the dial: when the "if err != nil" branch is
\* taken (next = "done") GetClient returns nil and the error, and SendMail
\* returns that error before any defer statement
GetClientStep(p, at, name, arg, ok, next, e) ==
  /\ pc[p] = at
  /\ log' = Issue(p, name, client[p], arg, ok)
  /\ pc' = [pc EXCEPT ![p] = next]
  /\ IF next # "done"
     THEN UNCHANGED <<err, ret, client>>
     ELSE /\ err' = [err EXCEPT ![p] = e]
          /\ ret' = [ret EXCEPT ![p] = GetClientFailed(e)]
          /\ client' = [client EXCEPT ![p] = 0]
  /\ UNCHANGED <<pb, c, newIn, newErr, email, w, wCloses, conns, calls>>

\* client.StartTLS(&tls.Config{InsecureSkipVerify: true, ServerName: c.host})
GetClientStartTLS(p, ok) ==
  /\ GetClientStep(p, "starttls", "StartTLS", <<c.host>>, ok, AfterStartTLS(ok),
                   StartTLSErr(TransportErr("StartTLS")))
  /\ UNCHANGED <<idx, defers>>

\* client.Auth(c.auth)
GetClientAuth(p, ok) ==
  /\ GetClientStep(p, "auth", "Auth", <<c.auth.username, c.auth.password>>, ok,
                   AfterAuth(ok), AuthErr(TransportErr("Auth")))
  /\ UNCHANGED <<idx, defers>>

\* client.Mail(c.senderAddress); on success GetClient returns the client,
\* SendMail defers client.Close() and enters the loop over email.To
GetClientMail(p, ok) ==
  /\ GetClientStep(p, "mail", "Mail", <<c.senderAddress>>, ok,
                   AfterMail(ok, email[p].To), MailErr(TransportErr("Mail")))
  /\ idx' = [idx EXCEPT ![p] = IF AfterMail(ok, email[p].To) # "done" THEN 1 ELSE @]
  /\ defers' = [defers EXCEPT ![p] =
                  IF AfterMail(ok, email[p].To) # "done" THEN Append(@, "client.Close") ELSE @]

\* ---------------------------------------------------------------- SendMail
RcptErr(cause) == Errorf("send error, failed to add recipients", <<>>, cause)
DataErr(cause) == Errorf("send error, failed to create data", <<>>, cause)
WriteErr(cause) ==
  Errorf("send error, failed to send email from", <<c.senderAddress, c.host, c.port>>, cause)

\* variant: the loop ranges over the Cc addresses before the To addresses
RcptAddr_CcFirst(e, i) == (e.Cc \o e.To)[i]

\* variant: the loop declares the first address every time
RcptAddr_First(e, i) == e.To[1]

\* the address the loop declares at position i: addr of "for _, addr := range email.To"
RcptAddr(e, i) == e.To[i]

\* variant: a rejected recipient is skipped and the loop goes on
AfterRcpt_Continue(ok, i, to) == LoopNext(i + 1, to)

\* the statement after client.Rcpt(addr) at position i: a rejected recipient
\* returns, an accepted one moves the loop on
AfterRcpt(ok, i, to) == IF ok THEN LoopNext(i + 1, to) ELSE "return"


\* strings.Join(elems, sep)
RECURSIVE Join(_, _)
Join(elems, sep) ==
  IF elems = <<>> THEN ""
  ELSE IF Len(elems) = 1 THEN elems[1]
  ELSE elems[1] \o sep \o Join(Tail(elems), sep)

\* variant: the Bcc line is put before the Cc line
Message_BccFirst(e) ==
  LET ccStmt == IF Len(e.Cc) # 0 THEN "Cc: " \o Join(e.Cc, ",") \o "\r\n" ELSE ""
      bccStmt == IF Len(e.Bcc) # 0 THEN "Bcc: " \o Join(e.Bcc, ",") \o "\r\n" ELSE ""
  IN "Subject: " \o e.Subject \o "\r\n" \o
     "To: " \o Join(e.To, ",") \o "\r\n" \o
     bccStmt \o ccStmt \o "\r\n" \o e.Body \o "\r\n"

\* lines 126-143: the message SendMail writes for email e
Message(e) ==
  LET ccStmt == IF Len(e.Cc) # 0 THEN "Cc: " \o Join(e.Cc, ",") \o "\r\n" ELSE ""
      bccStmt == IF Len(e.Bcc) # 0 THEN "Bcc: " \o Join(e.Bcc, ",") \o "\r\n" ELSE ""
  IN "Subject: " \o e.Subject \o "\r\n" \o
     "To: " \o Join(e.To, ",") \o "\r\n" \o
     ccStmt \o bccStmt \o "\r\n" \o e.Body \o "\r\n"

\* a return statement of SendMail: the deferred calls run next, or the call
\* is over when nothing was deferred
Unwind(stack) == IF stack = <<>> THEN "done" ELSE "unwind"

\* variant: the deferred calls run in the order they were deferred
NextDeferred_Fifo(stack) == 1

\* the deferred call that runs next: the one deferred last
NextDeferred(stack) == Len(stack)

\* the stack without its k-th entry
Popped(stack, k) == SubSeq(stack, 1, k - 1) \o SubSeq(stack, k + 1, Len(stack))

\* variant: err is the named result, so the closure's assignment is returned
AfterWriterClose_NamedResult(returned, closeErr) == closeErr

\* what SendMail returns once the deferred closure has assigned err = w.Close():
\* err is a local variable, not a named result, so the value given to the
\* return statement stands
AfterWriterClose(returned, closeErr) == returned

\* client.Rcpt(addr) for the address at idx[p]
SendMailRcpt(p, ok) ==
  /\ pc[p] = "rcpt"
  /\ log' = Issue(p, "Rcpt", client[p], <<RcptAddr(email[p], idx[p])>>, ok)
  /\ err' = [err EXCEPT ![p] = IF ok THEN NilErr ELSE Underlying("Rcpt")]
  /\ LET next == AfterRcpt(ok, idx[p], email[p].To)
     IN IF next = "return"
        THEN /\ ret' = [ret EXCEPT ![p] = RcptErr(TransportErr("Rcpt"))]
             /\ pc' = [pc EXCEPT ![p] = Unwind(defers[p])]
             /\ UNCHANGED idx
        ELSE /\ idx' = [idx EXCEPT ![p] = @ + 1]
             /\ pc' = [pc EXCEPT ![p] = next]
             /\ UNCHANGED ret
  /\ UNCHANGED <<pb, c, newIn, newErr, email, client, w, wCloses, defers, conns, calls>>

\* w, err := client.Data(); on success the writer's Close is deferred
SendMailData(p, ok) ==
  /\ pc[p] = "data"
  /\ log' = Issue(p, "Data", client[p], <<>>, ok)
  /\ IF ok
     THEN /\ w' = [w EXCEPT ![p] = "open"]
          /\ defers' = [defers EXCEPT ![p] = Append(@, "w.Close")]
          /\ pc' = [pc EXCEPT ![p] = "write"]
          /\ err' = [err EXCEPT ![p] = NilErr]
          /\ UNCHANGED ret
     ELSE /\ err' = [err EXCEPT ![p] = Underlying("Data")]
          /\ ret' = [ret EXCEPT ![p] = DataErr(TransportErr("Data"))]
          /\ pc' = [pc EXCEPT ![p] = Unwind(defers[p])]
          /\ UNCHANGED <<w, defers>>
  /\ UNCHANGED <<pb, c, newIn, newErr, email, client, idx, wCloses, conns, calls>>

\* the message is composed and written: _, err = w.Write(message); both
\* outcomes end in a return statement
SendMailWrite(p, ok) ==
  /\ pc[p] = "write"
  /\ log' = Issue(p, "Write", client[p], <<Message(email[p])>>, ok)
  /\ err' = [err EXCEPT ![p] = IF ok THEN NilErr ELSE Underlying("Write")]
  /\ ret' = [ret EXCEPT ![p] = IF ok THEN NilErr ELSE WriteErr(TransportErr("Write"))]
  /\ pc' = [pc EXCEPT ![p] = Unwind(defers[p])]
  /\ UNCHANGED <<pb, c, newIn, newErr, email, client, idx, w, wCloses, defers, conns, calls>>

\* the deferred closure of lines 119-124: err = w.Close(), and a failure is
\* printed
DeferredWriterClose(p, ok) ==
  /\ pc[p] = "unwind"
  /\ defers[p][NextDeferred(defers[p])] = "w.Close"
  /\ log' = Issue(p, "w.Close", client[p], <<>>, ok)
  /\ w' = [w EXCEPT ![p] = "closed"]
  /\ wCloses' = [wCloses EXCEPT ![p] = @ + 1]
  /\ LET closeErr == IF ok THEN NilErr ELSE Underlying("w.Close")
     IN /\ err' = [err EXCEPT ![p] = closeErr]
        /\ ret' = [ret EXCEPT ![p] = AfterWriterClose(@, closeErr)]
  /\ defers' = [defers EXCEPT ![p] = Popped(@, NextDeferred(@))]
  /\ pc' = [pc EXCEPT ![p] = Unwind(defers'[p])]
  /\ UNCHANGED <<pb, c, newIn, newErr, email, client, idx, conns, calls>>

\* variant: closing the connection also clears the auth token of the client
DeferredClientClose_ClearsAuth(p) ==
  /\ pc[p] = "unwind"
  /\ defers[p][NextDeferred(defers[p])] = "client.Close"
  /\ log' = Issue(p, "Close", client[p], <<>>, TRUE)
  /\ conns' = CloseConn(client[p])
  /\ defers' = [defers EXCEPT ![p] = Popped(@, NextDeferred(@))]
  /\ pc' = [pc EXCEPT ![p] = Unwind(defers'[p])]
  /\ c' = [c EXCEPT !.auth = NilAuth]
  /\ UNCHANGED <<pb, newIn, newErr, email, client, err, ret, idx, w, wCloses, calls>>

\* the deferred client.Close() of line 106; its result is dropped
DeferredClientClose(p) ==
  /\ pc[p] = "unwind"
  /\ defers[p][NextDeferred(defers[p])] = "client.Close"
  /\ log' = Issue(p, "Close", client[p], <<>>, TRUE)
  /\ conns' = CloseConn(client[p])
  /\ defers' = [defers EXCEPT ![p] = Popped(@, NextDeferred(@))]
  /\ pc' = [pc EXCEPT ![p] = Unwind(defers'[p])]
  /\ UNCHANGED <<pb, c, newIn, newErr, email, client, err, ret, idx, w, wCloses, calls>>

\* ---------------------------------------------------------------- ParseBody
\* a string is a sequence of characters here, so that placeholders can be
\* searched for

\* s begins with old
HasPrefix(s, old) == Len(old) <= Len(s) /\ SubSeq(s, 1, Len(old)) = old

\* strings.Replace(s, old, new, -1) for a non-empty old: every non-overlapping
\* occurrence of old, found from the left, is replaced by new
RECURSIVE Replace(_, _, _)
Replace(s, old, new) ==
  IF s = <<>> THEN <<>>
  ELSE IF HasPrefix(s, old) THEN new \o Replace(SubSeq(s, Len(old) + 1, Len(s)), old, new)
  ELSE <<Head(s)>> \o Replace(Tail(s), old, new)

\* fmt.Sprintf("%v", value) for a string, an int and a nil value
Sprint(value) ==
  CASE value.kind = "string" -> value.s
    [] value.kind = "int" -> Itoa(value.n)
    [] value.kind = "nil" -> <<"<", "n", "i", "l", ">">>

\* variant: the placeholder is built with single braces
Placeholder_SingleBrace(key) == <<"{">> \o key \o <<"}">>

\* placeholder := "{{" + key + "}}"
Placeholder(key) == <<"{", "{">> \o key \o <<"}", "}">>

\* the loop of ParseBody when range yields the keys in the given order
RECURSIVE ParseBodyIn(_, _, _)
ParseBodyIn(body, parameters, order) ==
  IF order = <<>> THEN body
  ELSE ParseBodyIn(Replace(body, Placeholder(Head(order)), Sprint(parameters[Head(order)])),
                   parameters, Tail(order))

\* the orders in which range can yield the keys of a map: any order
Perms(S) ==
  {f \in [1..Cardinality(S) -> S] : \A i, j \in 1..Cardinality(S) : i # j => f[i] # f[j]}

\* c.ParseBody(body, parameters)
ParseBody(body, parameters) ==
  /\ \E order \in Perms(DOMAIN parameters) :
       pb' = [called |-> TRUE, body |-> body, parameters |-> parameters, order |-> order,
              out |-> ParseBodyIn(body, parameters, order)]
  /\ UNCHANGED <<c, newIn, newErr, pc, email, client, err, ret, idx, w, wCloses,
                 defers, log, conns, calls>>

\* the most pieces a body is put together from
MaxParts == 2

\* the pieces of the bodies: placeholders, a single-braced name and plain text
Pieces == {<<"{", "{", "k", "}", "}">>, <<"{", "{", "j", "}", "}">>,
           <<"{", "{", "u", "}", "}">>, <<"{", "k", "}">>, <<"x">>}

RECURSIVE BodiesOf(_)
BodiesOf(n) ==
  IF n = 0 THEN {<<>>}
  ELSE BodiesOf(n - 1) \cup {b \o piece : b \in BodiesOf(n - 1), piece \in Pieces}

\* the keys of the maps: two names and a key that has braces in it
Keys == {<<"k">>, <<"j">>, <<"u", "}", "}", "{", "{", "k">>}

\* the values of the maps: plain text, text that is a placeholder, an int, nil
Values == {[kind |-> "string", s |-> <<"v">>, n |-> 0],
           [kind |-> "string", s |-> <<"{", "{", "j", "}", "}">>, n |-> 0],
           [kind |-> "int", s |-> <<>>, n |-> 42],
           [kind |-> "nil", s |-> <<>>, n |-> 0]}

\* map[string]interface{} values
Parameters == UNION {[D -> Values] : D \in SUBSET Keys}

\* ParseBody is called once, on any body with any map
NextParse ==
  /\ ~pb.called
  /\ \E body \in BodiesOf(MaxParts), parameters \in Parameters : ParseBody(body, parameters)

SpecParse == Init /\ [][NextParse]_vars

\* ---------------------------------------------------------------- behaviours
\* the steps goroutine p can take
Step(p) ==
  \/ \E e \in Email : SendMail(p, e)
  \/ \E ok \in BOOLEAN : GetClientDial(p, ok)
  \/ \E ok \in BOOLEAN : GetClientStartTLS(p, ok)
  \/ \E ok \in BOOLEAN : GetClientAuth(p, ok)
  \/ \E ok \in BOOLEAN : GetClientMail(p, ok)
  \/ \E ok \in BOOLEAN : SendMailRcpt(p, ok)
  \/ \E ok \in BOOLEAN : SendMailData(p, ok)
  \/ \E ok \in BOOLEAN : SendMailWrite(p, ok)
  \/ \E ok \in BOOLEAN : DeferredWriterClose(p, ok)
  \/ DeferredClientClose(p)

Construct ==
  \E s \in Senders, pw \in Passwords, h \in Hosts, port \in Ports : New(s, pw, h, port)

\* one goroutine constructs the client and calls SendMail, one call after another
Next ==
  \/ Construct
  \/ Step(1)

Spec == Init /\ [][Next]_vars

\* the emails the concurrent callers send: no Cc or Bcc, one address repeated
ConcEmail ==
  {e \in Email : /\ e.Cc = <<>> /\ e.Bcc = <<>>
                 /\ \A i, j \in 1..Len(e.To) : e.To[i] = e.To[j]}

\* go c.SendMail(e): goroutine p makes its one call
GoSendMail(p) == \E e \in ConcEmail : pc[p] = "idle" /\ SendMail(p, e)

\* the client is constructed with working credentials before it is shared
ConstructShared == \E port \in Ports : New("s@x.com", "pw", "mail.x.com", port)

\* the steps of a running call of goroutine p
Run(p) ==
  \/ \E ok \in BOOLEAN : GetClientDial(p, ok)
  \/ \E ok \in BOOLEAN : GetClientStartTLS(p, ok)
  \/ \E ok \in BOOLEAN : GetClientAuth(p, ok)
  \/ \E ok \in BOOLEAN : GetClientMail(p, ok)
  \/ \E ok \in BOOLEAN : SendMailRcpt(p, ok)
  \/ \E ok \in BOOLEAN : SendMailData(p, ok)
  \/ \E ok \in BOOLEAN : SendMailWrite(p, ok)
  \/ \E ok \in BOOLEAN : DeferredWriterClose(p, ok)
  \/ DeferredClientClose(p)

\* goroutines call SendMail on the same client, their steps interleaved
NextConc ==
  \/ ConstructShared
  \/ \E p \in Procs : GoSendMail(p)
  \/ \E p \in Procs : Run(p)

SpecConc == Init /\ [][NextConc]_vars

\* ParseBody calls made between the other operations: a body with a
\* placeholder or without, a map with its key or an empty one
ParseBodyBetween ==
  \E body \in {<<"{", "{", "k", "}", "}">>, <<"x">>},
     parameters \in {<<>>} \cup [{<<"k">>} -> {[kind |-> "string", s |-> <<"v">>, n |-> 0]}] :
    ParseBody(body, parameters)

\* every operation of the client: New, then SendMail calls and ParseBody calls
\* in any order
NextAll ==
  \/ Construct
  \/ Step(1)
  \/ ParseBodyBetween

SpecAll == Init /\ [][NextAll]_vars

\* ---------------------------------------------------------------- properties
\* the protocol commands of a call, without the two Close calls
IsProtocol(e) == e.cmd \notin {"w.Close", "Close"}
ProtocolLog(p) == SelectSeq(log[p], IsProtocol)

\* the commands a complete send of email e issues, in order
FullOrder(e) ==
  <<"Dial", "StartTLS", "Auth", "Mail">> \o [i \in 1..Len(e.To) |-> "Rcpt"] \o <<"Data", "Write">>

IssuedOk(p, name) == \E i \in 1..Len(log[p]) : log[p][i].cmd = name /\ log[p][i].ok
IssuedFailed(p, name) == \E i \in 1..Len(log[p]) : log[p][i].cmd = name /\ ~log[p][i].ok
Count(p, name) == Cardinality({i \in 1..Len(log[p]) : log[p][i].cmd = name})

\* the recipient addresses the call has declared, in order
RcptArgs(p) ==
  LET R == SelectSeq(log[p], LAMBDA e : e.cmd = "Rcpt")
  IN [i \in 1..Len(R) |-> R[i].arg[1]]

\* the error kinds of the specification, read off the error's text
KindOf(e) ==
  CASE e.msg = "auth error, empty auth" -> "AuthError"
    [] e.msg = "client error, failed to dial" -> "ConnectionError"
    [] e.msg = "client error, failed to start tls" -> "TLSError"
    [] e.msg = "client error, failed to apply auth" -> "AuthFailure"
    [] e.msg = "client error, failed to create mail" -> "EnvelopeError"
    [] e.msg = "send error, failed to add recipients" -> "RecipientError"
    [] e.msg = "send error, failed to create data" -> "DataPhaseError"
    [] e.msg = "send error, failed to send email from" -> "SendError"
    [] OTHER -> "none"

\* the error kind the specification names for a failure of each command
StageKind(name) ==
  CASE name = "Dial" -> "ConnectionError"
    [] name = "StartTLS" -> "TLSError"
    [] name = "Auth" -> "AuthFailure"
    [] name = "Mail" -> "EnvelopeError"
    [] name = "Rcpt" -> "RecipientError"
    [] name = "Data" -> "DataPhaseError"
    [] name = "Write" -> "SendError"

\* C1: when a SendMail call has returned, every connection it dialed has been
\* closed exactly once.  The code breaks this: a connection whose StartTLS,
\* Auth or Mail fails in GetClient is dropped without Close.
C1_DialedConnClosedOnce ==
  \A p \in Procs :
    pc[p] = "done" =>
      \A i \in 1..Len(log[p]) :
        (log[p][i].cmd = "Dial" /\ log[p][i].ok) =>
          /\ ~conns[log[p][i].conn].open
          /\ conns[log[p][i].conn].closes = 1

\* C2: the protocol commands of a call are a prefix of Dial, StartTLS, Auth,
\* Mail, one Rcpt per To address, Data, Write; every command but the last
\* issued one succeeded; and Auth is only issued on a connection whose StartTLS
\* succeeded.
C2_CommandOrder ==
  \A p \in Procs :
    LET L == ProtocolLog(p)
        X == FullOrder(email[p])
    IN /\ Len(L) <= Len(X)
       /\ \A i \in 1..Len(L) :
            /\ L[i].cmd = X[i]
            /\ (i < Len(L) => L[i].ok)
            /\ (L[i].cmd = "Auth" =>
                  \E j \in 1..(i - 1) :
                    L[j].cmd = "StartTLS" /\ L[j].ok /\ L[j].conn = L[i].conn)

C2_Witness ==
  \E p \in Procs :
    /\ pc[p] = "done"
    /\ Len(email[p].To) = 2
    /\ IssuedOk(p, "Write")

\* C3: a returned SendMail call returns nil exactly when every command of the
\* send, the closing of the data-phase writer included, succeeded.  The code
\* breaks this: a failed w.Close() is only printed and nil is returned.
C3_NoPartialSuccess ==
  \A p \in Procs :
    pc[p] = "done" =>
      (ret[p] = NilErr <=>
         /\ Len(ProtocolLog(p)) = Len(FullOrder(email[p]))
         /\ \A i \in 1..Len(log[p]) : log[p][i].ok
         /\ IssuedOk(p, "w.Close"))

\* C4: once the writer's Close has run, with whatever result, the value the
\* call returns is the one the write decided: nil after a successful write,
\* the SendError after a failed one.
C4_WriterCloseKeepsResult ==
  \A p \in Procs :
    Count(p, "w.Close") > 0 =>
      ret[p] = IF IssuedOk(p, "Write") THEN NilErr ELSE WriteErr(TransportErr("Write"))

C4_Witness ==
  \E p \in Procs :
    /\ pc[p] = "done"
    /\ IssuedFailed(p, "w.Close")
    /\ IssuedOk(p, "Write")
    /\ ret[p] = NilErr

\* C5: after a rejected Rcpt the call issues no further Rcpt, no Data and no
\* Write, and what it returns is the RecipientError, never a DataPhaseError
\* or a SendError.
C5_RejectedRcptAborts ==
  \A p \in Procs :
    \A i \in 1..Len(log[p]) :
      (log[p][i].cmd = "Rcpt" /\ ~log[p][i].ok) =>
        /\ \A j \in (i + 1)..Len(log[p]) : log[p][j].cmd \notin {"Rcpt", "Data", "Write"}
        /\ pc[p] \in {"unwind", "done"}
        /\ KindOf(ret[p]) = "RecipientError"
        /\ ret[p] = RcptErr(TransportErr("Rcpt"))

C5_Witness ==
  \E p \in Procs :
    /\ pc[p] = "done"
    /\ Len(email[p].To) = 2
    /\ Count(p, "Rcpt") = 1
    /\ IssuedFailed(p, "Rcpt")

\* C6: once Data has succeeded, the writer is never closed more than once, the
\* connection is not closed before the writer is, and a returned call has
\* closed the writer exactly once.
C6_WriterClosedOnceBeforeConn ==
  \A p \in Procs :
    IssuedOk(p, "Data") =>
      /\ Count(p, "w.Close") <= 1
      /\ wCloses[p] = Count(p, "w.Close")
      /\ \A j \in 1..Len(log[p]) :
           log[p][j].cmd = "Close" => \E i \in 1..(j - 1) : log[p][i].cmd = "w.Close"
      /\ (pc[p] = "done" => wCloses[p] = 1 /\ w[p] = "closed")

C6_Witness ==
  \E p \in Procs :
    /\ pc[p] = "done"
    /\ IssuedFailed(p, "Write")
    /\ wCloses[p] = 1
    /\ ~conns[client[p]].open

\* C7: New called with an empty password returns the AuthError and no client.
\* The code breaks this: PlainAuth never returns nil, so New never fails.
C7_EmptyPasswordRejected ==
  (newIn.called /\ newIn.password = "") => (KindOf(newErr) = "AuthError" /\ c = NoClient)

\* C8: a SendMail call that returns nil had at least one address in To.  The
\* code breaks this: with an empty To the loop is skipped and the result is
\* whatever Data and Write give.
C8_SuccessNeedsRecipient ==
  \A p \in Procs :
    (pc[p] = "done" /\ ret[p] = NilErr) => Len(email[p].To) > 0

\* C9: the addresses declared by Rcpt are, in order, a prefix of email.To, and
\* once Data is issued they are email.To itself.
C9_RcptFollowsTo ==
  \A p \in Procs :
    LET R == RcptArgs(p)
    IN /\ Len(R) <= Len(email[p].To)
       /\ \A i \in 1..Len(R) : R[i] = email[p].To[i]
       /\ (Count(p, "Data") > 0 => R = email[p].To)

C9_Witness ==
  \E p \in Procs :
    /\ Count(p, "Data") > 0
    /\ Len(email[p].To) = 2
    /\ email[p].To[1] # email[p].To[2]

\* C10: a returned call whose command failed returns the error kind of that
\* command, the first and only one that failed; when the command is one of
\* GetClient's, the value returned is the very error GetClient returned.
C10_ErrorNamesFailedStage ==
  \A p \in Procs :
    pc[p] = "done" =>
      LET L == ProtocolLog(p)
      IN \A i \in 1..Len(L) :
           (~L[i].ok /\ \A j \in 1..(i - 1) : L[j].ok) =>
             /\ KindOf(ret[p]) = StageKind(L[i].cmd)
             /\ ret[p].cause = TransportErr(L[i].cmd)
             /\ (L[i].cmd \in {"Dial", "StartTLS", "Auth", "Mail"} => ret[p] = err[p])

C10_Witness ==
  \E p \in Procs :
    /\ pc[p] = "done"
    /\ IssuedFailed(p, "Auth")
    /\ KindOf(ret[p]) = "AuthFailure"

\* C11: within a call Dial, StartTLS, Auth, Mail, Data and Write are issued at
\* most once each and nothing follows a failed protocol command; the
\* connection a call dials is a new one, and every command issued on a
\* connection, the Close included, belongs to the call that dialed it (the
\* calls are made one after another).
C11_NoRetryNoReuse ==
  \A p \in Procs :
    LET L == ProtocolLog(p)
    IN /\ \A name \in {"Dial", "StartTLS", "Auth", "Mail", "Data", "Write"} : Count(p, name) <= 1
       /\ \A i \in 1..Len(L) : ~L[i].ok => i = Len(L)
       /\ \A i \in 1..Len(log[p]) :
            log[p][i].conn # 0 =>
              /\ log[p][i].conn \in 1..Len(conns)
              /\ conns[log[p][i].conn].call = calls
              /\ conns[log[p][i].conn].owner = p
              /\ log[p][1].cmd = "Dial" /\ log[p][1].conn = log[p][i].conn
       /\ \A k \in 1..Len(conns) :
            conns[k].call < calls => \A i \in 1..Len(log[p]) : log[p][i].conn # k

C11_Witness ==
  \E p \in Procs :
    /\ calls = 2
    /\ Len(conns) = 2
    /\ pc[p] = "done"
    /\ IssuedOk(p, "Write")
    /\ log[p][1].conn = 2

\* C12: with calls running concurrently, every command a call issues, its
\* Close included, is on the connection that call dialed, a connection that
\* belongs to the calling goroutine; and no step of a call changes a field of
\* the shared client.
C12_OwnConnectionOnly ==
  [][ /\ \A p \in Procs :
           \A i \in 1..Len(log'[p]) :
             log'[p][i].conn # 0 =>
               /\ conns'[log'[p][i].conn].owner = p
               /\ log'[p][1].cmd = "Dial" /\ log'[p][1].conn = log'[p][i].conn
      /\ \A k \in 1..Len(conns') :
           conns'[k].closes =
             Cardinality({i \in 1..Len(log'[conns'[k].owner]) :
                            /\ log'[conns'[k].owner][i].cmd = "Close"
                            /\ log'[conns'[k].owner][i].conn = k})
      /\ (log' # log => c' = c) ]_vars

C12_Witness ==
  /\ \A p \in {1, 2} : pc[p] \notin {"idle", "done"} /\ client[p] # 0
  /\ client[1] = 2 /\ client[2] = 1
  /\ Count(1, "Rcpt") > 0 /\ Count(2, "Rcpt") > 0

\* the first n addresses of a list, separated by commas
RECURSIVE CommaList(_, _)
CommaList(as, n) ==
  IF n = 0 THEN ""
  ELSE IF n = 1 THEN as[1]
  ELSE CommaList(as, n - 1) \o "," \o as[n]

\* the lines of the payload as the specification lists them
PayloadLines(e) ==
  <<"Subject: " \o e.Subject, "To: " \o CommaList(e.To, Len(e.To))>>
    \o (IF e.Cc = <<>> THEN <<>> ELSE <<"Cc: " \o CommaList(e.Cc, Len(e.Cc))>>)
    \o (IF e.Bcc = <<>> THEN <<>> ELSE <<"Bcc: " \o CommaList(e.Bcc, Len(e.Bcc))>>)
    \o <<"", e.Body>>

\* the first n lines, each ended by CR LF
RECURSIVE Ended(_, _)
Ended(lines, n) == IF n = 0 THEN "" ELSE Ended(lines, n - 1) \o lines[n] \o "\r\n"

\* C13: the payload given to Write is the Subject line, the To line, the Cc
\* line iff Cc is non-empty, the Bcc line iff Bcc is non-empty, an empty line
\* and the body, each ended by CR LF, in that order; the two examples of the
\* specification come out as written there.
C13_PayloadExact ==
  \A p \in Procs :
    \A i \in 1..Len(log[p]) :
      log[p][i].cmd = "Write" =>
        /\ log[p][i].arg = <<Ended(PayloadLines(email[p]), Len(PayloadLines(email[p])))>>
        /\ (email[p] = [To |-> <<"a@x.com">>, Cc |-> <<>>, Bcc |-> <<>>,
                        Subject |-> "S", Body |-> "B"]
              => log[p][i].arg[1] = "Subject: S\r\nTo: a@x.com\r\n\r\nB\r\n")
        /\ (email[p] = [To |-> <<"a@x.com", "b@x.com">>, Cc |-> <<"c@x.com", "d@x.com">>,
                        Bcc |-> <<"e@x.com">>, Subject |-> "S", Body |-> "B"]
              => log[p][i].arg[1] =
                   "Subject: S\r\nTo: a@x.com,b@x.com\r\nCc: c@x.com,d@x.com\r\nBcc: e@x.com\r\n\r\nB\r\n")

C13_Witness ==
  \E p \in Procs :
    /\ IssuedOk(p, "Write")
    /\ Len(email[p].To) = 2
    /\ email[p].Cc # <<>>
    /\ email[p].Bcc # <<>>

\* "{{name}}" as the specification writes a placeholder
Braced(name) == <<"{", "{">> \o name \o <<"}", "}">>

\* the positions of s where t occurs
OccurrencesOf(t, s) == {i \in 1..(Len(s) - Len(t) + 1) : SubSeq(s, i, i + Len(t) - 1) = t}

\* one pass over body from the left in which each "{{key}}" met is replaced by
\* the text of its value and the inserted text is not looked at again
RECURSIVE Simultaneous(_, _)
Simultaneous(body, parameters) ==
  IF body = <<>> THEN <<>>
  ELSE LET hits == {k \in DOMAIN parameters : 1 \in OccurrencesOf(Braced(k), body)}
       IN IF hits = {}
          THEN <<Head(body)>> \o Simultaneous(Tail(body), parameters)
          ELSE LET k == CHOOSE x \in hits : \A y \in hits : Len(y) <= Len(x)
               IN Sprint(parameters[k])
                    \o Simultaneous(SubSeq(body, Len(Braced(k)) + 1, Len(body)), parameters)

\* C14: the result of ParseBody is the same for every order in which the keys
\* are processed, and it is the simultaneous substitution over the original
\* body.  The code breaks this: the keys are replaced one after another in the
\* order range yields them, so a value that is a placeholder of a later key is
\* expanded.
C14_OrderIndependent ==
  pb.called =>
    /\ \A o \in Perms(DOMAIN pb.parameters) :
         ParseBodyIn(pb.body, pb.parameters, o) = pb.out
    /\ pb.out = Simultaneous(pb.body, pb.parameters)

\* the names a placeholder can carry: text without braces
Names == {<<"k">>, <<"j">>, <<"u">>}

BraceFree(key) == \A i \in 1..Len(key) : key[i] \notin {"{", "}"}

\* no key of the last call's map occurs in its body as "{{key}}"
NoKeyOccurs == \A k \in DOMAIN pb.parameters : OccurrencesOf(Braced(k), pb.body) = {}

\* every placeholder of the body whose name is not a key is still in the output
UnmatchedKept ==
  \A u \in Names \ DOMAIN pb.parameters :
    Cardinality(OccurrencesOf(Braced(u), pb.out)) >=
      Cardinality(OccurrencesOf(Braced(u), pb.body))

\* C15 as stated: when no key occurs in the body as "{{key}}" the output is
\* the body, and in every call the placeholders whose name is not a key are
\* kept.  A key with braces in it refutes the second half: the placeholder of
\* the key "u}}{{k" is the text "{{u}}{{k}}", and replacing it removes "{{u}}".
C15_UnmatchedUntouched_Stated ==
  pb.called =>
    /\ (NoKeyOccurs => pb.out = pb.body)
    /\ UnmatchedKept

\* C15 (amended): when no key occurs in the body as "{{key}}" the output is
\* the body; and when no key of the map contains a brace, every placeholder of
\* the body whose name is not a key is kept in the output.
C15_UnmatchedUntouched ==
  pb.called =>
    /\ (NoKeyOccurs => pb.out = pb.body)
    /\ ((\A k \in DOMAIN pb.parameters : BraceFree(k)) => UnmatchedKept)

C15_Witness ==
  /\ pb.called
  /\ DOMAIN pb.parameters = {<<"k">>, <<"j">>}
  /\ pb.out # pb.body
  /\ OccurrencesOf(Braced(<<"u">>), pb.body) # {}
  /\ OccurrencesOf(Braced(<<"u">>), pb.out) # {}

\* C16: after New was called with a non-empty password and a port in
\* 1..65535 it has returned a client and no error, and the four accessors
\* return the arguments of the call, the port as the same integer.
C16_AccessorsReturnArguments ==
  (newIn.called /\ newIn.password # "" /\ newIn.port \in 1..65535) =>
    /\ newErr = NilErr
    /\ c # NoClient
    /\ GetSenderAddress = newIn.senderAddress
    /\ GetPassword = newIn.password
    /\ GetHost = newIn.host
    /\ GetPort = newIn.port

C16_Witness ==
  /\ newIn.called
  /\ newIn.password = "pw"
  /\ newIn.port = 65535
  /\ GetPort = 65535
  /\ c.port = <<"6", "5", "5", "3", "5">>

\* C17: once New has returned, no step of SendMail, GetClient or ParseBody
\* changes the client, and its five fields are the ones construction set from
\* the arguments of New: sender, password, host, the port's decimal text and
\* the auth token.
C17_IdentityFixed ==
  [][ /\ (newIn.called => (c' = c /\ newIn' = newIn /\ newErr' = newErr))
      /\ ((newIn'.called /\ newErr' = NilErr) =>
            /\ c'.senderAddress = newIn'.senderAddress
            /\ c'.password = newIn'.password
            /\ c'.host = newIn'.host
            /\ Atoi(c'.port) = newIn'.port
            /\ c'.auth = [isNil |-> FALSE, identity |-> "",
                          username |-> newIn'.senderAddress,
                          password |-> newIn'.password, host |-> newIn'.host]) ]_vars

C17_Witness ==
  /\ newIn.called
  /\ calls = 2
  /\ pc[1] = "done"
  /\ IssuedOk(1, "Write")
  /\ pb.called /\ pb.out = <<"v">>
  /\ c.password = "pw"

\* the addresses of a list
Range(as) == {as[i] : i \in 1..Len(as)}

\* C18: every address given to Rcpt is an address of email.To, so an address
\* listed only in Cc or Bcc is never declared; the Cc and Bcc addresses are in
\* the payload only: what Write is given differs from the payload of the same
\* email without its Cc, and from the one without its Bcc, whenever that list
\* is not empty.
C18_OnlyToDeclared ==
  \A p \in Procs :
    \A i \in 1..Len(log[p]) :
      /\ log[p][i].cmd = "Rcpt" =>
           /\ log[p][i].arg[1] \in Range(email[p].To)
           /\ log[p][i].arg[1] \notin
                (Range(email[p].Cc) \cup Range(email[p].Bcc)) \ Range(email[p].To)
      /\ log[p][i].cmd = "Write" =>
           LET without(e) == Ended(PayloadLines(e), Len(PayloadLines(e)))
           IN /\ email[p].Cc # <<>> =>
                   log[p][i].arg[1] # without([email[p] EXCEPT !.Cc = <<>>])
              /\ email[p].Bcc # <<>> =>
                   log[p][i].arg[1] # without([email[p] EXCEPT !.Bcc = <<>>])

C18_Witness ==
  \E p \in Procs :
    /\ pc[p] = "done"
    /\ ret[p] = NilErr
    /\ Count(p, "Rcpt") = 1
    /\ email[p].Cc # <<>>
    /\ email[p].Bcc # <<>>

====
